---- MODULE Spec2Model ----
(***************************************************************************)
(* Model of src/app/main.py: the two request handlers `search` and         *)
(* `summary_search` of the Gov Minutes RAG API.                            *)
(*                                                                         *)
(* A request is a process with a program counter.  A handler is cut at its *)
(* blocking calls: the embedding call (provider.embed), the acquisition of *)
(* the connection/transaction (engine.begin), the SQL round trip           *)
(* (conn.execute(...).fetchall()) and the exit of the `with` block.        *)
(* Each of these external capabilities either succeeds or raises.          *)
(*                                                                         *)
(* Representation:                                                         *)
(*   - a query is the sequence of its characters;                          *)
(*   - a nullable value is None == <<>> or a one-element tuple <<v>>;      *)
(*   - a similarity score is an integer number of score units; the average *)
(*     of a group is the exact fraction <<sum, match_count>> (the float    *)
(*     division of line 149, without rounding);                            *)
(*   - a datastore row is [url, text, score]: columns 0, 3 and 4 of the    *)
(*     SELECT.  council_name and date (columns 1, 2) are copied through    *)
(*     unchanged and are left out.  text is the identity of the chunk (or  *)
(*     summary) the row carries.                                           *)
(***************************************************************************)
EXTENDS Integers, Sequences, FiniteSets, TLC

\* ------------------------------------------------------------------ bounds
NumReq == 2
MaxRows == 3

Reqs == 1..NumReq

None == <<>>
Some(v) == <<v>>

Whitespace == {" ", "\t", "\n"}

\* Request bodies (SearchRequest, lines 70-73).
Queries == { <<>>, <<" ">>, <<"\t", " ">>, <<" ", "a">> }
TopKs == {-1, 0, 1, 2, 5, 20, 21, 100, 101}
Urls == {"u1", "u2", "u3"}
Scores == {None, Some(-1), Some(0), Some(1)}

\* Workload of the concurrent specification.
ConcQueries == { <<" ">>, <<" ", "a">> }
ConcRowSeqs == { <<>>, << [url |-> "u1", text |-> 1, score |-> Some(1)] >> }

Min(a, b) == IF a < b THEN a ELSE b
Max(a, b) == IF a > b THEN a ELSE b

\* ------------------------------------------------------- input validation
RECURSIVE lstrip(_)
lstrip(s) ==
  IF s = <<>> THEN s
  ELSE IF Head(s) \in Whitespace THEN lstrip(Tail(s)) ELSE s

RECURSIVE rstrip(_)
rstrip(s) ==
  IF s = <<>> THEN s
  ELSE IF s[Len(s)] \in Whitespace THEN rstrip(SubSeq(s, 1, Len(s) - 1)) ELSE s

strip(s) == rstrip(lstrip(s))

\* mutant: the query is tested for emptiness without being stripped
IsBlank_NoStrip(query) == query = <<>>

\* `not req.query or not req.query.strip()`
IsBlank(query) == query = <<>> \/ strip(query) = <<>>

\* --------------------------------------------------------- top_k handling
\* mutant: the requested value is used without the clamp into [1, 20]
FinalTopK_NoClamp(has_top_k, supplied) ==
  LET requested_top_k == IF has_top_k THEN supplied ELSE 5
  IN  IF requested_top_k # 0 /\ requested_top_k > 0 THEN requested_top_k ELSE 5

\* lines 95-98
FinalTopK(has_top_k, supplied) ==
  LET requested_top_k == IF has_top_k THEN supplied ELSE 5
      positive == IF requested_top_k # 0 /\ requested_top_k > 0
                  THEN requested_top_k ELSE 5
  IN  Max(1, Min(20, positive))

\* mutant: the over-fetch factor is applied to the default only
FetchLimit_NoFactor(has_top_k, k) ==
  Max(IF has_top_k THEN k ELSE 5 * 5, k)

\* lines 99-100
FetchLimit(has_top_k, k) ==
  Max(IF has_top_k THEN k * 5 ELSE 5 * 5, k)

\* line 170: `max(1, min(100, req.top_k or 5))`
SummaryTopK(supplied) ==
  Max(1, Min(100, IF supplied # 0 THEN supplied ELSE 5))

\* ------------------------------------------------- grouping (lines 128-142)
\* mutant: a null score is read as one score unit
ScoreVal_One(score) == IF score # None THEN score[1] ELSE 1

\* line 131: `float(r[4]) if r[4] is not None else 0.0`
ScoreVal(score) == IF score # None THEN score[1] ELSE 0

\* mutant: every row opens a group of its own
AddHit_NoMerge(grouped, r) ==
  Append(grouped, [url |-> r.url, scores |-> <<ScoreVal(r.score)>>,
                   chunks |-> <<r.text>>])

\* one iteration of the loop of lines 129-142; grouped_results is a dict in
\* insertion order, modelled as the sequence of its values
AddHit(grouped, r) ==
  IF \E i \in 1..Len(grouped) : grouped[i].url = r.url
  THEN LET i == CHOOSE j \in 1..Len(grouped) : grouped[j].url = r.url
       IN  [grouped EXCEPT ![i].scores = Append(@, ScoreVal(r.score)),
                           ![i].chunks = Append(@, r.text)]
  ELSE Append(grouped, [url |-> r.url, scores |-> <<ScoreVal(r.score)>>,
                        chunks |-> <<r.text>>])

RECURSIVE GroupRows(_)
GroupRows(rs) ==
  IF rs = <<>> THEN <<>>
  ELSE AddHit(GroupRows(SubSeq(rs, 1, Len(rs) - 1)), rs[Len(rs)])

\* ---------------------------------------------- aggregation (lines 144-160)
RECURSIVE SumSeq(_)
SumSeq(s) == IF s = <<>> THEN 0 ELSE Head(s) + SumSeq(Tail(s))

RECURSIVE BestFrom_Last(_, _, _)
BestFrom_Last(scores, i, best) ==
  IF i > Len(scores) THEN best
  ELSE BestFrom_Last(scores, i + 1, IF scores[i] >= scores[best] THEN i ELSE best)

RECURSIVE BestFrom(_, _, _)
BestFrom(scores, i, best) ==
  IF i > Len(scores) THEN best
  ELSE BestFrom(scores, i + 1, IF scores[i] > scores[best] THEN i ELSE best)

\* mutant: among equal maxima the last one wins
BestIdx_Last(scores) == BestFrom_Last(scores, 2, 1)

\* line 150: `max(range(match_count), key=lambda i: scores[i])`; Python's max
\* keeps the first of several maximal elements
BestIdx(scores) == BestFrom(scores, 2, 1)

\* lines 146-160
Finalize(data) ==
  LET match_count == Len(data.scores)
      avg_score == IF match_count # 0
                   THEN <<SumSeq(data.scores), match_count>> ELSE <<0, 1>>
      best_chunk == IF match_count # 0
                    THEN Some(data.chunks[BestIdx(data.scores)]) ELSE None
  IN  [url |-> data.url,
       chunk_text |-> best_chunk,
       score |-> IF match_count # 0 THEN avg_score ELSE None,
       match_count |-> match_count]

UniqueResults(rs) ==
  LET grouped == GroupRows(rs)
  IN  [i \in 1..Len(grouped) |-> Finalize(grouped[i])]

\* --------------------------------------------------- ranking (lines 162-163)
\* `item["score"] or 0.0`
ScoreOrZero(item) ==
  IF item.score = None \/ item.score[1] = 0 THEN <<0, 1>> ELSE item.score

\* key(a) < key(b) for key = (-match_count, -(score or 0.0))
KeyLess(a, b) ==
  LET sa == ScoreOrZero(a)
      sb == ScoreOrZero(b)
  IN  \/ a.match_count > b.match_count
      \/ /\ a.match_count = b.match_count
         /\ sa[1] * sb[2] > sb[1] * sa[2]

\* position of x in the sorted sequence s: before the first element whose key
\* is greater than the key of x (list.sort is stable)
InsertSorted(s, x) ==
  LET later == {i \in 1..Len(s) : KeyLess(x, s[i])}
      p == IF later = {} THEN Len(s) + 1
           ELSE CHOOSE i \in later : \A j \in later : i <= j
  IN  SubSeq(s, 1, p - 1) \o <<x>> \o SubSeq(s, p, Len(s))

RECURSIVE SortItems(_)
SortItems(s) ==
  IF s = <<>> THEN <<>>
  ELSE InsertSorted(SortItems(SubSeq(s, 1, Len(s) - 1)), s[Len(s)])

\* lines 144-162: unique_results after `unique_results.sort(...)`
Ranked(rs) == SortItems(UniqueResults(rs))

\* mutant: the list is cut before it is sorted
SearchResults_CutFirst(rs, k) ==
  LET u == UniqueResults(rs)
  IN  SortItems(SubSeq(u, 1, Min(k, Len(u))))

\* line 163: `unique_results[:final_top_k]`
SearchResults(rs, k) ==
  LET sorted == Ranked(rs)
  IN  SubSeq(sorted, 1, Min(k, Len(sorted)))

\* lines 205-216
SummaryResults(rs) ==
  [i \in 1..Len(rs) |-> [url |-> rs[i].url, summary |-> rs[i].text,
                         score |-> rs[i].score]]

\* ------------------------------------------------------------ the datastore
RECURSIVE SeqsOfLen(_, _)
SeqsOfLen(S, n) ==
  IF n = 0 THEN {<<>>}
  ELSE {Append(s, x) : s \in SeqsOfLen(S, n - 1), x \in S}

\* The result sets of a similarity query: at most MaxRows rows, any urls and
\* scores in any order, the i-th row carrying chunk i.
RowSeqs ==
  LET shapes == UNION {SeqsOfLen(Urls \X Scores, n) : n \in 0..MaxRows}
  IN  {[i \in 1..Len(s) |-> [url |-> s[i][1], text |-> i, score |-> s[i][2]]] :
         s \in shapes}

\* ------------------------------------------------------------------- state
VARIABLES
  pc,           \* position of each request in its handler
  req,          \* the request body (SearchRequest) and the operation called
  final_top_k,  \* local of search
  fetch_limit,  \* local of search
  top_k,        \* local of summary_search
  embedCalls,   \* calls of provider.embed made for the request
  embedded,     \* outcome of the embedding call: "none", "ok", "failed"
  dbCalls,      \* datastore round trips started (`with engine.begin()` entered)
  execCalls,    \* statements executed (conn.execute called)
  sentLimit,    \* the LIMIT parameter bound in the executed statement
  connsOpened,  \* connections/transactions acquired by engine.begin()
  txn,          \* the request's transaction: "none", "open", "committed", "rolledback"
  rows,         \* the fetched rows
  unique_results, \* local of search: the aggregates, ranked, before the cut
  resp          \* the response: HTTP status, error detail, result items

vars == <<pc, req, final_top_k, fetch_limit, top_k, embedCalls, embedded,
          dbCalls, execCalls, sentLimit, connsOpened, txn, rows,
          unique_results, resp>>

NoReq == [op |-> "", query |-> <<>>, top_k |-> 5, has_top_k |-> FALSE]
NoResp == [status |-> 0, detail |-> "", items |-> <<>>]

Init ==
  /\ pc = [r \in Reqs |-> "idle"]
  /\ req = [r \in Reqs |-> NoReq]
  /\ final_top_k = [r \in Reqs |-> 0]
  /\ fetch_limit = [r \in Reqs |-> 0]
  /\ top_k = [r \in Reqs |-> 0]
  /\ embedCalls = [r \in Reqs |-> 0]
  /\ embedded = [r \in Reqs |-> "none"]
  /\ dbCalls = [r \in Reqs |-> 0]
  /\ execCalls = [r \in Reqs |-> 0]
  /\ sentLimit = [r \in Reqs |-> 0]
  /\ connsOpened = [r \in Reqs |-> 0]
  /\ txn = [r \in Reqs |-> "none"]
  /\ rows = [r \in Reqs |-> <<>>]
  /\ unique_results = [r \in Reqs |-> <<>>]
  /\ resp = [r \in Reqs |-> NoResp]

\* HTTPException(status_code, detail); an exception no handler catches leaves
\* the framework to answer 500 "Internal Server Error"
Error(status, detail) == [status |-> status, detail |-> detail, items |-> <<>>]
Unhandled == Error(500, "Internal Server Error")

\* The body pydantic builds: an omitted top_k takes the default 5 and is
\* absent from __fields_set__ (lines 70-73, 95)
Body(op, query, has_top_k, k) ==
  [op |-> op, query |-> query, top_k |-> IF has_top_k THEN k ELSE 5,
   has_top_k |-> has_top_k]

\* search, lines 92-100: validation and the result budget
SearchStart(r, query, has_top_k, k) ==
  /\ pc[r] = "idle"
  /\ req' = [req EXCEPT ![r] = Body("search", query, has_top_k, k)]
  /\ IF IsBlank(query)
     THEN /\ resp' = [resp EXCEPT ![r] = Error(400, "query is required")]
          /\ pc' = [pc EXCEPT ![r] = "done"]
          /\ UNCHANGED <<final_top_k, fetch_limit>>
     ELSE /\ final_top_k' = [final_top_k EXCEPT ![r] = FinalTopK(has_top_k, req'[r].top_k)]
          /\ fetch_limit' = [fetch_limit EXCEPT ![r] = FetchLimit(has_top_k, final_top_k'[r])]
          /\ pc' = [pc EXCEPT ![r] = "embed"]
          /\ UNCHANGED resp
  /\ UNCHANGED <<top_k, embedCalls, embedded, dbCalls, execCalls, sentLimit,
                 connsOpened, txn, rows, unique_results>>

\* summary_search, lines 167-170
SummaryStart(r, query, has_top_k, k) ==
  /\ pc[r] = "idle"
  /\ req' = [req EXCEPT ![r] = Body("summary_search", query, has_top_k, k)]
  /\ IF IsBlank(query)
     THEN /\ resp' = [resp EXCEPT ![r] = Error(400, "query is required")]
          /\ pc' = [pc EXCEPT ![r] = "done"]
          /\ UNCHANGED top_k
     ELSE /\ top_k' = [top_k EXCEPT ![r] = SummaryTopK(req'[r].top_k)]
          /\ pc' = [pc EXCEPT ![r] = "embed"]
          /\ UNCHANGED resp
  /\ UNCHANGED <<final_top_k, fetch_limit, embedCalls, embedded, dbCalls,
                 execCalls, sentLimit, connsOpened, txn, rows, unique_results>>

\* provider.embed([req.query])[0] returns (lines 103, 173)
EmbedOk(r) ==
  /\ pc[r] = "embed"
  /\ embedCalls' = [embedCalls EXCEPT ![r] = @ + 1]
  /\ embedded' = [embedded EXCEPT ![r] = "ok"]
  /\ pc' = [pc EXCEPT ![r] = "begin"]
  /\ UNCHANGED <<req, final_top_k, fetch_limit, top_k, dbCalls, execCalls,
                 sentLimit, connsOpened, txn, rows, unique_results, resp>>

\* mutant: a failed embedding is replaced by a substitute vector and the
\* request goes on to the datastore
EmbedFail_Substitute(r) ==
  /\ pc[r] = "embed"
  /\ embedCalls' = [embedCalls EXCEPT ![r] = @ + 1]
  /\ embedded' = [embedded EXCEPT ![r] = "failed"]
  /\ pc' = [pc EXCEPT ![r] = "begin"]
  /\ UNCHANGED <<req, final_top_k, fetch_limit, top_k, dbCalls, execCalls,
                 sentLimit, connsOpened, txn, rows, unique_results, resp>>

\* provider.embed raises: summary_search catches it (lines 172-176), search
\* lets it propagate (line 103)
EmbedFail(r) ==
  /\ pc[r] = "embed"
  /\ embedCalls' = [embedCalls EXCEPT ![r] = @ + 1]
  /\ embedded' = [embedded EXCEPT ![r] = "failed"]
  /\ resp' = [resp EXCEPT ![r] = IF req[r].op = "summary_search"
                                 THEN Error(500, "embedding failed")
                                 ELSE Unhandled]
  /\ pc' = [pc EXCEPT ![r] = "done"]
  /\ UNCHANGED <<req, final_top_k, fetch_limit, top_k, dbCalls, execCalls,
                 sentLimit, connsOpened, txn, rows, unique_results>>

\* the answer to a failure raised inside or on the boundary of the `with`
\* block: caught in summary_search (lines 201-203), propagated by search
DbError(r) ==
  IF req[r].op = "summary_search" THEN Error(500, "db query failed") ELSE Unhandled

\* `with engine.begin() as conn` is entered (lines 118, 192): with NullPool
\* (line 28) every entry opens a connection of its own
DbBeginOk(r) ==
  /\ pc[r] = "begin"
  /\ dbCalls' = [dbCalls EXCEPT ![r] = @ + 1]
  /\ connsOpened' = [connsOpened EXCEPT ![r] = @ + 1]
  /\ txn' = [txn EXCEPT ![r] = "open"]
  /\ pc' = [pc EXCEPT ![r] = "exec"]
  /\ UNCHANGED <<req, final_top_k, fetch_limit, top_k, embedCalls, embedded,
                 execCalls, sentLimit, rows, unique_results, resp>>

\* engine.begin() raises: no connection, no transaction
DbBeginFail(r) ==
  /\ pc[r] = "begin"
  /\ dbCalls' = [dbCalls EXCEPT ![r] = @ + 1]
  /\ resp' = [resp EXCEPT ![r] = DbError(r)]
  /\ pc' = [pc EXCEPT ![r] = "done"]
  /\ UNCHANGED <<req, final_top_k, fetch_limit, top_k, embedCalls, embedded,
                 execCalls, sentLimit, connsOpened, txn, rows, unique_results>>

\* the "limit" / "top_k" parameter of the statement (lines 124, 198)
Limit(r) == IF req[r].op = "search" THEN fetch_limit[r] ELSE top_k[r]

\* conn.execute(sql, params).fetchall() returns rows (lines 119-126,
\* 193-200): one of the result sets in results that respects the LIMIT
DbExecOk(r, results) ==
  /\ pc[r] = "exec"
  /\ \E rs \in results :
       /\ Len(rs) <= Limit(r)
       /\ rows' = [rows EXCEPT ![r] = rs]
  /\ execCalls' = [execCalls EXCEPT ![r] = @ + 1]
  /\ sentLimit' = [sentLimit EXCEPT ![r] = Limit(r)]
  /\ pc' = [pc EXCEPT ![r] = "exit"]
  /\ UNCHANGED <<req, final_top_k, fetch_limit, top_k, embedCalls, embedded,
                 dbCalls, connsOpened, txn, unique_results, resp>>

\* mutant: the exception leaves the block without the transaction being
\* rolled back
DbExecFail_Leak(r) ==
  /\ pc[r] = "exec"
  /\ execCalls' = [execCalls EXCEPT ![r] = @ + 1]
  /\ sentLimit' = [sentLimit EXCEPT ![r] = Limit(r)]
  /\ resp' = [resp EXCEPT ![r] = DbError(r)]
  /\ pc' = [pc EXCEPT ![r] = "done"]
  /\ UNCHANGED <<req, final_top_k, fetch_limit, top_k, embedCalls, embedded,
                 dbCalls, connsOpened, txn, rows, unique_results>>

\* mutant: summary_search reports a datastore failure as it reports an
\* embedding failure
DbExecFail_SameKind(r) ==
  /\ pc[r] = "exec"
  /\ execCalls' = [execCalls EXCEPT ![r] = @ + 1]
  /\ sentLimit' = [sentLimit EXCEPT ![r] = Limit(r)]
  /\ txn' = [txn EXCEPT ![r] = "rolledback"]
  /\ resp' = [resp EXCEPT ![r] = IF req[r].op = "summary_search"
                                 THEN Error(500, "embedding failed")
                                 ELSE Unhandled]
  /\ pc' = [pc EXCEPT ![r] = "done"]
  /\ UNCHANGED <<req, final_top_k, fetch_limit, top_k, embedCalls, embedded,
                 dbCalls, connsOpened, rows, unique_results>>

\* conn.execute raises inside the `with` block: the context manager rolls the
\* transaction back and re-raises
DbExecFail(r) ==
  /\ pc[r] = "exec"
  /\ execCalls' = [execCalls EXCEPT ![r] = @ + 1]
  /\ sentLimit' = [sentLimit EXCEPT ![r] = Limit(r)]
  /\ txn' = [txn EXCEPT ![r] = "rolledback"]
  /\ resp' = [resp EXCEPT ![r] = DbError(r)]
  /\ pc' = [pc EXCEPT ![r] = "done"]
  /\ UNCHANGED <<req, final_top_k, fetch_limit, top_k, embedCalls, embedded,
                 dbCalls, connsOpened, rows, unique_results>>

\* the `with` block is left normally: commit, then the rest of the handler
\* (lines 128-163, 205-216) builds the response
CommitOk(r) ==
  /\ pc[r] = "exit"
  /\ txn' = [txn EXCEPT ![r] = "committed"]
  /\ unique_results' = [unique_results EXCEPT ![r] =
                          IF req[r].op = "search" THEN Ranked(rows[r]) ELSE <<>>]
  /\ resp' = [resp EXCEPT ![r] =
                [status |-> 200, detail |-> "",
                 items |-> IF req[r].op = "search"
                           THEN SearchResults(rows[r], final_top_k[r])
                           ELSE SummaryResults(rows[r])]]
  /\ pc' = [pc EXCEPT ![r] = "done"]
  /\ UNCHANGED <<req, final_top_k, fetch_limit, top_k, embedCalls, embedded,
                 dbCalls, execCalls, sentLimit, connsOpened, rows>>

\* the commit on leaving the block raises: the transaction ends rolled back
CommitFail(r) ==
  /\ pc[r] = "exit"
  /\ txn' = [txn EXCEPT ![r] = "rolledback"]
  /\ resp' = [resp EXCEPT ![r] = DbError(r)]
  /\ pc' = [pc EXCEPT ![r] = "done"]
  /\ UNCHANGED <<req, final_top_k, fetch_limit, top_k, embedCalls, embedded,
                 dbCalls, execCalls, sentLimit, connsOpened, rows,
                 unique_results>>

\* top_k as the client sends it: omitted, or one of TopKs
TopKInputs == {<<FALSE, 5>>} \cup {<<TRUE, k>> : k \in TopKs}

\* One request, every request body, every result set of the datastore.
Next ==
  \E r \in {1} :
    \/ \E q \in Queries, t \in TopKInputs : SearchStart(r, q, t[1], t[2])
    \/ \E q \in Queries, t \in TopKInputs : SummaryStart(r, q, t[1], t[2])
    \/ EmbedOk(r)
    \/ EmbedFail(r)
    \/ DbBeginOk(r)
    \/ DbBeginFail(r)
    \/ DbExecOk(r, RowSeqs)
    \/ DbExecFail(r)
    \/ CommitOk(r)
    \/ CommitFail(r)

Spec == Init /\ [][Next]_vars

\* NumReq requests handled concurrently, their steps interleaved.
NextConc ==
  \E r \in Reqs :
    \/ \E q \in ConcQueries : SearchStart(r, q, FALSE, 5)
    \/ \E q \in ConcQueries : SummaryStart(r, q, FALSE, 5)
    \/ EmbedOk(r)
    \/ EmbedFail(r)
    \/ DbBeginOk(r)
    \/ DbBeginFail(r)
    \/ DbExecOk(r, ConcRowSeqs)
    \/ DbExecFail(r)
    \/ CommitOk(r)
    \/ CommitFail(r)

SpecConc == Init /\ [][NextConc]_vars

\* ================================================================ properties
\* A query that is empty or made of whitespace only.
Blank(query) == \A i \in 1..Len(query) : query[i] \in Whitespace

Finished(r) == pc[r] = "done"
SearchOk(r) == Finished(r) /\ req[r].op = "search" /\ resp[r].status = 200

\* the rows of rs for the document url
HitsOf(rs, url) == {j \in 1..Len(rs) : rs[j].url = url}
RowUrls(rs) == {rs[j].url : j \in 1..Len(rs)}
NonNull(rs, J) == {j \in J : rs[j].score # None}

\* sum of the scores of the rows J of rs, none of them null
RECURSIVE SumScores(_, _)
SumScores(rs, J) ==
  IF J = {} THEN 0
  ELSE LET j == CHOOSE x \in J : TRUE
       IN  rs[j].score[1] + SumScores(rs, J \ {j})

\* a ranks strictly below b: (match_count, average score) of a is
\* lexicographically smaller
Smaller(a, b) ==
  \/ a.match_count < b.match_count
  \/ /\ a.match_count = b.match_count
     /\ a.score[1] * b.score[2] < b.score[1] * a.score[2]

\* the aggregate of the document url, from the rows themselves (a null score
\* counting as zero)
Agg(rs, url) ==
  [match_count |-> Cardinality(HitsOf(rs, url)),
   score |-> <<SumScores(rs, NonNull(rs, HitsOf(rs, url))),
               Cardinality(HitsOf(rs, url))>>]

SameRank(a, b) ==
  /\ a.match_count = b.match_count
  /\ a.score[1] * b.score[2] = b.score[1] * a.score[2]

\* C1: a request whose query is empty or whitespace only ends at once in the
\* client-input error 400; no embedding call is made for it, no connection is
\* opened and no statement is executed.
C1_BlankQueryRejected ==
  \A r \in Reqs :
    (pc[r] # "idle" /\ Blank(req[r].query)) =>
      /\ Finished(r)
      /\ resp[r].status = 400
      /\ resp[r].items = <<>>
      /\ embedCalls[r] = 0
      /\ dbCalls[r] = 0 /\ connsOpened[r] = 0 /\ execCalls[r] = 0
      /\ txn[r] = "none"

C1_Witness ==
  \E r \in Reqs :
    /\ Finished(r) /\ req[r].query # <<>> /\ Blank(req[r].query)
    /\ resp[r].status = 400

\* C2: whatever top_k the caller sends (omitted, zero, negative, positive),
\* search uses a final_top_k within [1, 20] and summary_search a top_k within
\* [1, 100]; in search a supplied value that is not positive becomes 5, and an
\* omitted top_k gives 5 in both operations.
C2_TopKRange ==
  \A r \in Reqs :
    (pc[r] # "idle" /\ ~Blank(req[r].query)) =>
      IF req[r].op = "search"
      THEN /\ final_top_k[r] \in 1..20
           /\ (req[r].has_top_k /\ req[r].top_k <= 0) => final_top_k[r] = 5
           /\ (req[r].has_top_k /\ req[r].top_k > 0) =>
                final_top_k[r] = Min(20, req[r].top_k)
           /\ ~req[r].has_top_k => final_top_k[r] = 5
      ELSE /\ top_k[r] \in 1..100
           /\ req[r].top_k > 0 => top_k[r] = Min(100, req[r].top_k)
           /\ ~req[r].has_top_k => top_k[r] = 5

C2_Witness ==
  \E r \in Reqs :
    /\ req[r].op = "search" /\ req[r].has_top_k /\ req[r].top_k = 101
    /\ pc[r] = "embed" /\ final_top_k[r] = 20

\* C3: the LIMIT search sends to the datastore is final_top_k * 5 when the
\* caller supplied top_k (also a zero or negative one, final_top_k then being
\* 5) and 25 when top_k was omitted, and never less than final_top_k; the LIMIT
\* summary_search sends is its clamped top_k, without a factor.
C3_FetchLimit ==
  \A r \in Reqs :
    execCalls[r] > 0 =>
      IF req[r].op = "search"
      THEN /\ sentLimit[r] = IF req[r].has_top_k THEN final_top_k[r] * 5 ELSE 25
           /\ sentLimit[r] >= final_top_k[r]
           /\ (req[r].has_top_k /\ req[r].top_k <= 0) => sentLimit[r] = 25
      ELSE /\ sentLimit[r] = top_k[r]
           /\ sentLimit[r] \in 1..100
           /\ req[r].top_k \in 1..100 => sentLimit[r] = req[r].top_k

C3_Witness ==
  \E r \in Reqs :
    /\ req[r].op = "search" /\ req[r].has_top_k /\ req[r].top_k = 2
    /\ execCalls[r] = 1 /\ sentLimit[r] = 10

\* C4: the aggregates built from the fetched rows have pairwise distinct urls,
\* one for every url among the rows; each has match_count >= 1; before the cut
\* to final_top_k the match_counts add up to the number of rows.
C4_Grouping ==
  \A r \in Reqs :
    SearchOk(r) =>
      LET u == unique_results[r]
          rs == rows[r]
      IN  /\ \A i, j \in 1..Len(u) : i # j => u[i].url # u[j].url
          /\ {u[i].url : i \in 1..Len(u)} = RowUrls(rs)
          /\ \A i \in 1..Len(u) : u[i].match_count >= 1
          /\ SumSeq([i \in 1..Len(u) |-> u[i].match_count]) = Len(rs)

C4_Witness ==
  \E r \in Reqs :
    /\ SearchOk(r)
    /\ Len(rows[r]) = 3 /\ Len(unique_results[r]) = 2
    /\ rows[r][1].url = rows[r][3].url /\ rows[r][1].url # rows[r][2].url

\* C5: the list search returns is in rank order (no earlier item has a
\* lexicographically smaller (match_count, average score) than a later one),
\* has at most final_top_k items, and is the first final_top_k items of the
\* ranking of all the aggregates: no omitted aggregate ranks strictly above a
\* returned one.
C5_Ranking ==
  \A r \in Reqs :
    SearchOk(r) =>
      LET items == resp[r].items
          rs == rows[r]
          shown == {items[i].url : i \in 1..Len(items)}
      IN  /\ Len(items) <= final_top_k[r]
          /\ Len(items) = Min(final_top_k[r], Cardinality(RowUrls(rs)))
          /\ shown \subseteq RowUrls(rs)
          /\ Cardinality(shown) = Len(items)
          /\ \A i \in 1..Len(items) : SameRank(items[i], Agg(rs, items[i].url))
          /\ \A i, j \in 1..Len(items) : i < j => ~Smaller(items[i], items[j])
          /\ \A url \in RowUrls(rs) \ shown : \A i \in 1..Len(items) :
               ~Smaller(items[i], Agg(rs, url))

C5_Witness ==
  \E r \in Reqs :
    /\ SearchOk(r)
    /\ final_top_k[r] = 2 /\ Len(resp[r].items) = 2
    /\ Len(unique_results[r]) = 3
    /\ rows[r][1].url # resp[r].items[1].url
    /\ Smaller(Agg(rows[r], rows[r][1].url), resp[r].items[1])

\* C6: for every aggregate whose hits all carry a score, match_count is the
\* number of hits with its url, the score is the arithmetic mean of their
\* scores, and chunk_text is the text of the hit with the greatest score, the
\* first such hit in row order when several share it.
C6_Aggregate ==
  \A r \in Reqs :
    SearchOk(r) =>
      LET u == unique_results[r]
          rs == rows[r]
      IN  \A i \in 1..Len(u) :
            LET J == HitsOf(rs, u[i].url)
            IN  NonNull(rs, J) = J =>
                  /\ u[i].match_count = Cardinality(J)
                  /\ u[i].score # None
                  /\ u[i].score[1] * Cardinality(J) = SumScores(rs, J) * u[i].score[2]
                  /\ \E j \in J :
                       /\ u[i].chunk_text = Some(rs[j].text)
                       /\ \A h \in J : rs[h].score[1] <= rs[j].score[1]
                       /\ \A h \in J : rs[h].score[1] = rs[j].score[1] => j <= h

C6_Witness ==
  \E r \in Reqs :
    /\ SearchOk(r)
    /\ \E i \in 1..Len(unique_results[r]) :
         \E j, h \in HitsOf(rows[r], unique_results[r][i].url) :
           /\ j < h
           /\ rows[r][j].score = Some(1) /\ rows[r][h].score = Some(1)
           /\ unique_results[r][i].chunk_text = Some(rows[r][j].text)
           /\ unique_results[r][i].match_count = 3

\* C7: in summary_search a failed embedding call and a failed datastore round
\* trip both end the request with status 500, the first reported as
\* "embedding failed", the second as "db query failed"; a request that does
\* not succeed returns no item, also when rows had been fetched.
C7_SummaryErrors ==
  \A r \in Reqs :
    (Finished(r) /\ req[r].op = "summary_search" /\ ~Blank(req[r].query)) =>
      /\ embedded[r] = "failed" =>
           /\ resp[r].status = 500
           /\ resp[r].detail = "embedding failed"
      /\ (embedded[r] = "ok" /\ txn[r] # "committed") =>
           /\ resp[r].status = 500
           /\ resp[r].detail = "db query failed"
      /\ resp[r].status = 200 <=> (embedded[r] = "ok" /\ txn[r] = "committed")
      /\ resp[r].status # 200 => resp[r].items = <<>>

C7_Witness ==
  \E r \in Reqs :
    /\ Finished(r) /\ req[r].op = "summary_search"
    /\ rows[r] # <<>> /\ txn[r] = "rolledback"
    /\ resp[r].status = 500 /\ resp[r].detail = "db query failed"
    /\ resp[r].items = <<>>

\* C8: a request with a non-blank query makes exactly one embedding call; the
\* datastore round trip is started exactly once, after the embedding call has
\* succeeded, and never when it failed (the failure ends the request with an
\* error); no call is repeated.
C8_OneEmbedOneQuery ==
  \A r \in Reqs :
    /\ embedCalls[r] <= 1 /\ dbCalls[r] <= 1 /\ execCalls[r] <= 1
    /\ execCalls[r] <= dbCalls[r]
    /\ dbCalls[r] > 0 => (embedCalls[r] = 1 /\ embedded[r] = "ok")
    /\ embedded[r] = "failed" =>
         /\ Finished(r) /\ resp[r].status = 500 /\ resp[r].items = <<>>
         /\ dbCalls[r] = 0 /\ execCalls[r] = 0 /\ connsOpened[r] = 0
    /\ (Finished(r) /\ ~Blank(req[r].query)) =>
         /\ embedCalls[r] = 1
         /\ embedded[r] = "ok" => dbCalls[r] = 1
         /\ connsOpened[r] = 1 => execCalls[r] = 1

C8_Witness ==
  \E r \in Reqs :
    /\ Finished(r) /\ req[r].op = "search"
    /\ embedded[r] = "failed" /\ embedCalls[r] = 1 /\ dbCalls[r] = 0
    /\ resp[r].status = 500

\* C9: with requests interleaved, each request acquires at most one
\* connection/transaction, and no request is finished with its transaction
\* open: it is committed when the request succeeded and rolled back when it
\* failed after the acquisition.
C9_TransactionReleased ==
  \A r \in Reqs :
    /\ connsOpened[r] <= 1
    /\ txn[r] # "none" <=> connsOpened[r] = 1
    /\ txn[r] = "open" => pc[r] \in {"exec", "exit"}
    /\ Finished(r) =>
         /\ txn[r] # "open"
         /\ resp[r].status = 200 => txn[r] = "committed"
         /\ (resp[r].status # 200 /\ connsOpened[r] = 1) => txn[r] = "rolledback"

C9_Witness ==
  \E r1, r2 \in Reqs :
    /\ r1 # r2
    /\ Finished(r1) /\ txn[r1] = "rolledback" /\ execCalls[r1] = 1
    /\ rows[r1] = <<>>
    /\ txn[r2] = "open" /\ pc[r2] = "exit"

\* C10 as stated: a null score of a hit counts as 0.0 for the ranking only; it
\* is not reported as 0.0 (a document whose hits all have a null score does
\* not get the score 0.0) and it does not change the average reported for its
\* document (the mean of the scores that are not null).
C10_NullNotSurfaced ==
  \A r \in Reqs :
    SearchOk(r) =>
      LET u == unique_results[r]
          rs == rows[r]
      IN  \A i \in 1..Len(u) :
            LET N == NonNull(rs, HitsOf(rs, u[i].url))
            IN  IF N = {}
                THEN ~(u[i].score # None /\ u[i].score[1] = 0)
                ELSE /\ u[i].score # None
                     /\ u[i].score[1] * Cardinality(N) = SumScores(rs, N) * u[i].score[2]

\* C10 amended: a null score of a hit is read as 0.0, and this 0.0 enters the
\* reported average as it enters the ranking: the score of an aggregate with a
\* null hit is the sum of its scores that are not null divided by the number
\* of all its hits, and it is never null.
C10_NullCountsAsZero ==
  \A r \in Reqs :
    SearchOk(r) =>
      LET u == unique_results[r]
          rs == rows[r]
      IN  \A i \in 1..Len(u) :
            LET J == HitsOf(rs, u[i].url)
                N == NonNull(rs, J)
            IN  N # J =>
                  /\ u[i].score # None
                  /\ u[i].score[1] * Cardinality(J) = SumScores(rs, N) * u[i].score[2]
                  /\ N = {} => u[i].score[1] = 0

C10_Witness ==
  \E r \in Reqs :
    /\ SearchOk(r)
    /\ Len(rows[r]) = 2 /\ Len(unique_results[r]) = 1
    /\ rows[r][1].score = None /\ rows[r][2].score = Some(1)
    /\ unique_results[r][1].score = <<1, 2>>

====
